---------------------------- MODULE Spec2Model ----------------------------
(***************************************************************************)
(* A model of sharp-frames' processing collaborators:                      *)
(*   - colorspace.py     colour detection, the zscale capability cache and *)
(*                       the FFmpeg filter strings;                        *)
(*   - gps_extractor.py  ISO 6709 parsing and the ffprobe GPS lookup;      *)
(*   - exif_writer.py    embedding a GPS block into a JPEG;                *)
(*   - the Frame Selector of spec.md section 4.3 and the Pipeline          *)
(*     Orchestrator of section 4.5 (frame_selector.py and tui_processor.py *)
(*     are imported by processing/__init__.py but are not part of the      *)
(*     sources).                                                           *)
(*                                                                         *)
(* Python values are represented as follows.  Optional[T] is a sequence of *)
(* length at most one: None is << >>, a value v is <<v>>.  str is a TLA+   *)
(* string (TLC evaluates Len, \o and SubSeq on strings).  A float is a     *)
(* sign and a magnitude counted in units of 10^-FracDigits.  A dict read   *)
(* with .get(key, default) is a record whose fields are Optional.          *)
(***************************************************************************)
EXTENDS Integers, Sequences, FiniteSets, TLC

VARIABLES
    color_info,          \* the VideoColorInfo in hand (constructed or detected)
    ffprobe,             \* what the last ffprobe run of detect_color_space did
    detect_raised,       \* the last detect_color_space call raised
    built,               \* build_colorspace_filter has run on color_info
    filter_result,       \* its return value, Optional[str]
    _zscale_available,   \* colorspace.py's module-level cache, Optional[bool]
    probes,              \* results of the check_zscale_available runs so far
    returns,             \* return values of the is_zscale_available calls so far
    resets,              \* times the cache cell was set back to None
    gps_probe,           \* what the last ffprobe run of extract_gps_from_video did
    gps_raised,          \* the last extract_gps_from_video call raised
    gps_result,          \* its return value, Optional[GPSData]
    jpeg,                \* the JPEG file at jpeg_path: whether it exists, its EXIF
    embed_call,          \* the last embed_gps_in_jpeg call, Optional
    candidates,          \* the scored candidate set, in extraction order
    target_count,        \* K, the number of frames asked for
    min_gap,             \* the minimum-gap configuration value, Optional
    sel_pc,              \* where the Frame Selector is in its run
    picks,               \* per window handled so far, the index it chose, Optional
    selected,            \* the Selection Result's indices, ascending
    phase,               \* the Orchestrator's phase
    run_no,              \* which run of the same run identity this is (1 = first)
    checkpoint,          \* the persisted run checkpoint, Optional
    units_done,          \* work units the current phase has completed in this run
    executed,            \* phases whose work this run has carried out, in part or whole
    finished,            \* phases that finished successfully since the checkpoint was created
    trail,               \* the phases this run has been in, in order
    outcome,             \* why the run was aborted, Optional
    resumed_from,        \* for a resumed run: what the checkpoint recorded when it
                         \* began and how the run before it ended, Optional
    parse_input,         \* the text handed to parse_iso6709
    parse_result         \* what parse_iso6709 returned for it, None before the call

vars == <<color_info, ffprobe, detect_raised, built, filter_result,
          _zscale_available, probes, returns, resets,
          gps_probe, gps_raised, gps_result, jpeg, embed_call,
          candidates, target_count, min_gap, sel_pc, picks, selected,
          phase, run_no, checkpoint, units_done, executed, finished, trail,
          outcome, resumed_from, parse_input, parse_result>>

colorVars == <<color_info, ffprobe, detect_raised, built, filter_result>>
zscaleVars == <<_zscale_available, probes, returns, resets>>
gpsVars == <<gps_probe, gps_raised, gps_result, jpeg, embed_call>>
selectorVars == <<candidates, target_count, min_gap, sel_pc, picks, selected>>
orchestratorVars == <<phase, run_no, checkpoint, units_done, executed, finished,
                      trail, outcome, resumed_from>>
parseVars == <<parse_input, parse_result>>

-----------------------------------------------------------------------------
(* Bounds of the model *)

\* is_zscale_available calls followed in one process
MaxCalls == 4
\* explicit resets of the cache cell followed in one process
MaxResets == 2
\* decimal places a float keeps in the model (its resolution is 10^-FracDigits)
FracDigits == 2
\* candidates in a scored set, the largest sharpness score, the largest target
\* count and the largest minimum gap tried
MaxCandidates == 4
MaxScore == 2
MaxTarget == 3
MaxGap == 2
\* work units (frames, candidates, files) one phase of the Orchestrator handles,
\* and the runs of one run identity followed
PhaseUnits == 2
MaxRuns == 3

-----------------------------------------------------------------------------
(* Python values *)

None == << >>
Some(v) == <<v>>

\* dict.get(key, default) on a field that is present (<<v>>) or missing (<< >>)
Get(field, default) == IF field = None THEN default ELSE field[1]

\* Python's `sub in s` for str
Contains(s, sub) ==
    \E i \in 1..(Len(s) - Len(sub) + 1) : SubSeq(s, i, i + Len(sub) - 1) = sub

UpperCase == "ABCDEFGHIJKLMNOPQRSTUVWXYZ"
LowerCase == "abcdefghijklmnopqrstuvwxyz"

LowerChar(c) ==
    IF \E i \in 1..Len(UpperCase) : SubSeq(UpperCase, i, i) = c
    THEN LET i == CHOOSE k \in 1..Len(UpperCase) : SubSeq(UpperCase, k, k) = c
         IN  SubSeq(LowerCase, i, i)
    ELSE c

RECURSIVE Lower(_)
\* str.lower()
Lower(s) ==
    IF s = "" THEN ""
    ELSE LowerChar(SubSeq(s, 1, 1)) \o Lower(SubSeq(s, 2, Len(s)))

\* str.strip(): leading and trailing whitespace removed
IsSpace(c) == c \in {" ", "\t", "\n", "\r"}

RECURSIVE LStrip(_)
LStrip(s) ==
    IF s # "" /\ IsSpace(SubSeq(s, 1, 1)) THEN LStrip(SubSeq(s, 2, Len(s))) ELSE s

RECURSIVE RStrip(_)
RStrip(s) ==
    IF s # "" /\ IsSpace(SubSeq(s, Len(s), Len(s)))
    THEN RStrip(SubSeq(s, 1, Len(s) - 1)) ELSE s

Strip(s) == RStrip(LStrip(s))

Digits == "0123456789"
IsDigit(c) == \E i \in 1..Len(Digits) : SubSeq(Digits, i, i) = c
DigitVal(c) == (CHOOSE i \in 1..Len(Digits) : SubSeq(Digits, i, i) = c) - 1
IsSign(c) == c \in {"+", "-"}

\* s[i], or "" past the end of s
CharAt(s, i) == IF i >= 1 /\ i <= Len(s) THEN SubSeq(s, i, i) ELSE ""

RECURSIVE DigitsEnd(_, _)
\* the position after the longest run of digits of s that starts at i
DigitsEnd(s, i) == IF IsDigit(CharAt(s, i)) THEN DigitsEnd(s, i + 1) ELSE i

RECURSIVE NatOf(_)
\* the value of a string of digits ("" is 0)
NatOf(s) ==
    IF s = "" THEN 0
    ELSE 10 * NatOf(SubSeq(s, 1, Len(s) - 1)) + DigitVal(SubSeq(s, Len(s), Len(s)))

RECURSIVE Pow10(_)
Pow10(n) == IF n = 0 THEN 1 ELSE 10 * Pow10(n - 1)

Scale == Pow10(FracDigits)

RECURSIVE Zeros(_)
Zeros(n) == IF n = 0 THEN "" ELSE "0" \o Zeros(n - 1)

\* A float: sign and magnitude in units of 1/Scale (signed zero is kept)
Float(neg, mag) == [neg |-> neg, mag |-> mag]
FloatOfInt(n) == Float(n < 0, (IF n < 0 THEN -n ELSE n) * Scale)
\* x >= 0 and x < 0 on floats: -0.0 >= 0 is True
GeZero(x) == ~x.neg \/ x.mag = 0
FAbs(x) == Float(FALSE, x.mag)

\* x / y for y # 0, rounded down to the model's resolution; the quotient is
\* taken in two steps so that no intermediate product leaves TLC's integers
FloatDiv(x, y) ==
    Float(x.neg # y.neg,
          (x.mag \div y.mag) * Scale + ((x.mag % y.mag) * Scale) \div y.mag)

\* the magnitude of the decimal  <int digits> . <frac digits>  at the model's
\* resolution (fraction digits past FracDigits are dropped)
DecimalMag(intDigits, fracDigits) ==
    NatOf(intDigits) * Scale + NatOf(SubSeq(fracDigits \o Zeros(FracDigits), 1, FracDigits))

\* float(s) for the plain decimal forms  [ws][+-]digits[.digits][ws],
\* [+-]digits.  and  [+-].digits ; None stands for ValueError.  (Exponents,
\* inf, nan and digit-group underscores are outside the strings used here.)
ParseFloat(str) ==
    LET s == Strip(str)
        first == IF IsSign(CharAt(s, 1)) THEN 2 ELSE 1
        intEnd == DigitsEnd(s, first)
        hasDot == CharAt(s, intEnd) = "."
        fracStart == IF hasDot THEN intEnd + 1 ELSE intEnd
        fracEnd == DigitsEnd(s, fracStart)
        intDigits == SubSeq(s, first, intEnd - 1)
        fracDigits == SubSeq(s, fracStart, fracEnd - 1)
    IN  IF fracEnd = Len(s) + 1 /\ (intDigits # "" \/ fracDigits # "")
        THEN Some(Float(CharAt(s, 1) = "-", DecimalMag(intDigits, fracDigits)))
        ELSE None

-----------------------------------------------------------------------------
(* colorspace.py: the enums and VideoColorInfo *)

ColorPrimaries == {"BT709", "BT2020", "DISPLAY_P3", "UNKNOWN"}
TransferFunction == {"BT709", "SRGB", "PQ", "HLG", "UNKNOWN"}
ColorMatrix == {"BT709", "BT2020_NCL", "BT2020_CL", "UNKNOWN"}

\* the max_luminance values a directly constructed info is given here
LuminanceSamples == {None, Some(FloatOfInt(1000))}

VideoColorInfo ==
    [color_primaries : ColorPrimaries,
     transfer_function : TransferFunction,
     color_matrix : ColorMatrix,
     is_hdr : BOOLEAN,
     max_luminance : LuminanceSamples]

\* needs_conversion with UNKNOWN primaries no longer taken for BT.709
needs_conversion_UnknownConverts(info) ==
    IF info.is_hdr THEN TRUE
    ELSE IF info.color_primaries \notin {"BT709"} THEN TRUE
    ELSE IF info.transfer_function \notin {"BT709", "SRGB", "UNKNOWN"} THEN TRUE
    ELSE FALSE

needs_conversion(info) ==
    IF info.is_hdr THEN TRUE
    ELSE IF info.color_primaries \notin {"BT709", "UNKNOWN"} THEN TRUE
    ELSE IF info.transfer_function \notin {"BT709", "SRGB", "UNKNOWN"} THEN TRUE
    ELSE FALSE

is_wide_gamut_sdr(info) ==
    /\ info.color_primaries \in {"DISPLAY_P3", "BT2020"}
    /\ ~info.is_hdr

_default_color_info ==
    [color_primaries |-> "UNKNOWN",
     transfer_function |-> "UNKNOWN",
     color_matrix |-> "UNKNOWN",
     is_hdr |-> FALSE,
     max_luminance |-> None]

_map_color_primaries(value) ==
    IF value = "" THEN "UNKNOWN"
    ELSE LET v == Lower(value)
         IN  CASE v = "bt709" -> "BT709"
               [] v = "bt2020" -> "BT2020"
               [] v = "smpte432" -> "DISPLAY_P3"
               [] OTHER -> "UNKNOWN"

\* _map_transfer_function looking value up as written, without value.lower()
_map_transfer_function_CaseSensitive(value) ==
    IF value = "" THEN "UNKNOWN"
    ELSE CASE value = "bt709" -> "BT709"
           [] value = "iec61966-2-1" -> "SRGB"
           [] value = "smpte2084" -> "PQ"
           [] value = "arib-std-b67" -> "HLG"
           [] OTHER -> "UNKNOWN"

_map_transfer_function(value) ==
    IF value = "" THEN "UNKNOWN"
    ELSE LET v == Lower(value)
         IN  CASE v = "bt709" -> "BT709"
               [] v = "iec61966-2-1" -> "SRGB"
               [] v = "smpte2084" -> "PQ"
               [] v = "arib-std-b67" -> "HLG"
               [] OTHER -> "UNKNOWN"

_map_color_matrix(value) ==
    IF value = "" THEN "UNKNOWN"
    ELSE LET v == Lower(value)
         IN  CASE v = "bt709" -> "BT709"
               [] v = "bt2020nc" -> "BT2020_NCL"
               [] v = "bt2020c" -> "BT2020_CL"
               [] OTHER -> "UNKNOWN"

\* positions of "/" in s
SlashPositions(s) == {i \in 1..Len(s) : SubSeq(s, i, i) = "/"}

\* float(num) / float(denom) of  num, denom = s.split('/') ; None stands for the
\* ValueError (not two parts, or a part that is no number) or ZeroDivisionError
\* that the loop's except clause swallows
LuminanceRatio(s) ==
    IF Cardinality(SlashPositions(s)) # 1 THEN None
    ELSE LET k == CHOOSE i \in SlashPositions(s) : TRUE
             num == ParseFloat(SubSeq(s, 1, k - 1))
             denom == ParseFloat(SubSeq(s, k + 1, Len(s)))
         IN  IF num = None \/ denom = None THEN None
             ELSE IF denom[1].mag = 0 THEN None
             ELSE Some(FloatDiv(num[1], denom[1]))

RECURSIVE MaxLuminanceOf(_, _)
\* the for-loop of _parse_color_info over side_data_list, max_luminance so far
MaxLuminanceOf(side_data, sofar) ==
    IF side_data = << >> THEN sofar
    ELSE LET data == Head(side_data)
             max_lum_str == Get(data.max_luminance, "")
             ratio == LuminanceRatio(max_lum_str)
             next == IF /\ data.side_data_type = Some("Mastering display metadata")
                        /\ Contains(max_lum_str, "/")
                        /\ ratio # None
                     THEN ratio
                     ELSE sofar
         IN  MaxLuminanceOf(Tail(side_data), next)

\* _parse_color_info that never sets the HDR flag
_parse_color_info_NeverHdr(stream) ==
    LET color_primaries_str == Get(stream.color_primaries, "unknown")
        transfer_str == Get(stream.color_transfer, "unknown")
        color_matrix_str == Get(stream.color_space, "unknown")
    IN  [color_primaries |-> _map_color_primaries(color_primaries_str),
         transfer_function |-> _map_transfer_function(transfer_str),
         color_matrix |-> _map_color_matrix(color_matrix_str),
         is_hdr |-> FALSE,
         max_luminance |-> MaxLuminanceOf(Get(stream.side_data_list, << >>), None)]

_parse_color_info(stream) ==
    LET color_primaries_str == Get(stream.color_primaries, "unknown")
        transfer_str == Get(stream.color_transfer, "unknown")
        color_matrix_str == Get(stream.color_space, "unknown")
        transfer == _map_transfer_function(transfer_str)
    IN  [color_primaries |-> _map_color_primaries(color_primaries_str),
         transfer_function |-> transfer,
         color_matrix |-> _map_color_matrix(color_matrix_str),
         is_hdr |-> transfer \in {"PQ", "HLG"},
         max_luminance |-> MaxLuminanceOf(Get(stream.side_data_list, << >>), None)]

-----------------------------------------------------------------------------
(* colorspace.py: the zscale probe and its process-wide cache *)

\* One run of `ffmpeg -filters`: exc is the exception subprocess.run raised
\* ("none": it returned), stdout what the tool printed
FfmpegRuns ==
    [exc : {"none"},
     stdout : {"... zscale ... other filters ...", "scale colorspace other_filter", ""}]
    \cup [exc : {"TimeoutExpired", "FileNotFoundError", "OSError"}, stdout : {""}]

check_zscale_available(run) ==
    IF run.exc = "none" THEN Contains(run.stdout, "zscale") ELSE FALSE

\* what check_zscale_available can answer
ProbeAnswers == {check_zscale_available(run) : run \in FfmpegRuns}

\* is_zscale_available testing the cell's truth (`if not _zscale_available`)
\* instead of `is None`: a cached False is probed again
is_zscale_available_Falsy(cache, probe) ==
    IF cache = None \/ cache = Some(FALSE)
    THEN [value |-> probe, cache |-> Some(probe), probed |-> TRUE]
    ELSE [value |-> cache[1], cache |-> cache, probed |-> FALSE]

\* is_zscale_available() with the cache cell holding `cache`, when
\* check_zscale_available, if it is run, answers `probe`: the value returned,
\* the cell afterwards, and whether check_zscale_available ran
is_zscale_available(cache, probe) ==
    IF cache = None
    THEN [value |-> probe, cache |-> Some(probe), probed |-> TRUE]
    ELSE [value |-> cache[1], cache |-> cache, probed |-> FALSE]

\* the bookkeeping of one is_zscale_available call whose outcome is r
ZscaleCalled(r) ==
    /\ _zscale_available' = r.cache
    /\ probes' = IF r.probed THEN Append(probes, r.value) ELSE probes
    /\ returns' = Append(returns, r.value)
    /\ UNCHANGED resets

-----------------------------------------------------------------------------
(* colorspace.py: the filter strings *)

\* _build_hdr_to_sdr_filter without the fallback branch
_build_hdr_to_sdr_filter_NoFallback(color_info_, zscale) ==
    "zscale=t=linear:npl=100,"
    \o "format=gbrpf32le,"
    \o "zscale=p=bt709,"
    \o "tonemap=hable:desat=0,"
    \o "zscale=t=bt709:m=bt709:r=tv,"
    \o "format=yuv420p"

_build_hdr_to_sdr_filter(color_info_, zscale) ==
    IF zscale
    THEN "zscale=t=linear:npl=100,"
         \o "format=gbrpf32le,"
         \o "zscale=p=bt709,"
         \o "tonemap=hable:desat=0,"
         \o "zscale=t=bt709:m=bt709:r=tv,"
         \o "format=yuv420p"
    ELSE "colorspace=all=bt709:fast=0"

\* _build_wide_gamut_to_srgb_filter that takes every input for BT.709
_build_wide_gamut_to_srgb_filter_Bt709Input(color_info_) ==
    "colorspace=all=bt709:iall=" \o "bt709" \o ":fast=0"

_build_wide_gamut_to_srgb_filter(color_info_) ==
    LET input_primaries ==
            IF color_info_.color_primaries = "DISPLAY_P3" THEN "smpte432"
            ELSE IF color_info_.color_primaries = "BT2020" THEN "bt2020"
            ELSE "bt709"
    IN  "colorspace=all=bt709:iall=" \o input_primaries \o ":fast=0"

\* which branch of build_colorspace_filter an info takes
FilterBranch(info) ==
    IF ~needs_conversion(info) THEN "none"
    ELSE IF info.is_hdr THEN "hdr"
    ELSE IF is_wide_gamut_sdr(info) THEN "wide_gamut"
    ELSE "unhandled"

\* build_colorspace_filter(color_info) when is_zscale_available() answers zscale
build_colorspace_filter(info, zscale) ==
    IF ~needs_conversion(info) THEN None
    ELSE IF info.is_hdr THEN Some(_build_hdr_to_sdr_filter(info, zscale))
    ELSE IF is_wide_gamut_sdr(info) THEN Some(_build_wide_gamut_to_srgb_filter(info))
    ELSE None

-----------------------------------------------------------------------------
(* colorspace.py: detect_color_space *)

\* Texts ffprobe may print for the three colour fields of a stream (None: the
\* key is missing), in the spellings and cases the mapping tables must fold
PrimariesTexts ==
    {None, Some(""), Some("bt709"), Some("BT2020"), Some("smpte432"), Some("smpte170m")}
TransferTexts ==
    {None, Some(""), Some("bt709"), Some("iec61966-2-1"), Some("SMPTE2084"),
     Some("arib-std-b67"), Some("gamma22")}
MatrixTexts ==
    {None, Some(""), Some("bt709"), Some("bt2020nc"), Some("BT2020C"), Some("unknown")}

SideData(type, lum) == [side_data_type |-> type, max_luminance |-> lum]
Mastering(lum) == SideData(Some("Mastering display metadata"), Some(lum))

SideDataLists ==
    {None,
     Some(<<Mastering("10000/10")>>),
     Some(<<SideData(Some("Content light level metadata"), None), Mastering("1000/0")>>),
     Some(<<Mastering("4000/1"), Mastering("abc/1")>>)}

Streams ==
    [color_primaries : PrimariesTexts,
     color_transfer : TransferTexts,
     color_space : MatrixTexts,
     side_data_list : SideDataLists]

\* One run of ffprobe: exc is the exception subprocess.run raised ("none": it
\* returned), returncode its exit status, json what json.loads makes of stdout:
\* "invalid" (JSONDecodeError), an "array" (valid JSON, no dict) or an "object"
\* whose "streams" key is missing (None) or holds a list
FfprobeRuns ==
    [exc : {"TimeoutExpired", "FileNotFoundError", "OSError"}, returncode : {0},
     json : {[kind |-> "invalid", streams |-> None]}]
    \cup [exc : {"none"}, returncode : {1},
          json : {[kind |-> "invalid", streams |-> None]}]
    \cup [exc : {"none"}, returncode : {0},
          json : {[kind |-> "invalid", streams |-> None],
                  [kind |-> "array", streams |-> None],
                  [kind |-> "object", streams |-> None],
                  [kind |-> "object", streams |-> Some(<< >>)]}]
    \cup {[exc |-> "none", returncode |-> 0,
           json |-> [kind |-> "object", streams |-> Some(<<st>>)]] : st \in Streams}

\* detect_color_space without the `if not streams` test: streams[0] of an empty
\* list raises IndexError, which the except clause does not name
detect_color_space_NoEmptyCheck(run) ==
    IF run.exc # "none" THEN [raised |-> FALSE, info |-> _default_color_info]
    ELSE IF run.returncode # 0 THEN [raised |-> FALSE, info |-> _default_color_info]
    ELSE IF run.json.kind = "invalid" THEN [raised |-> FALSE, info |-> _default_color_info]
    ELSE IF run.json.kind # "object" THEN [raised |-> TRUE, info |-> _default_color_info]
    ELSE LET streams == Get(run.json.streams, << >>)
         IN  IF streams = << >> THEN [raised |-> TRUE, info |-> _default_color_info]
             ELSE [raised |-> FALSE, info |-> _parse_color_info(streams[1])]

\* detect_color_space(video_path) when ffprobe does `run`: the info returned,
\* or raised (data.get on a JSON value that is no dict: AttributeError is not
\* among the exceptions the function catches)
detect_color_space(run) ==
    IF run.exc # "none" THEN [raised |-> FALSE, info |-> _default_color_info]
    ELSE IF run.returncode # 0 THEN [raised |-> FALSE, info |-> _default_color_info]
    ELSE IF run.json.kind = "invalid" THEN [raised |-> FALSE, info |-> _default_color_info]
    ELSE IF run.json.kind # "object" THEN [raised |-> TRUE, info |-> _default_color_info]
    ELSE LET streams == Get(run.json.streams, << >>)
         IN  IF streams = << >> THEN [raised |-> FALSE, info |-> _default_color_info]
             ELSE [raised |-> FALSE, info |-> _parse_color_info(streams[1])]

\* what the state keeps of an ffprobe run
RunSummary(run) ==
    [exc |-> run.exc, returncode |-> run.returncode, json_kind |-> run.json.kind,
     n_streams |-> IF run.json.streams = None THEN None
                   ELSE Some(Len(run.json.streams[1])),
     stream |-> IF run.json.streams = None \/ run.json.streams = Some(<< >>)
                THEN None
                ELSE Some(run.json.streams[1][1])]

-----------------------------------------------------------------------------
(* gps_extractor.py *)

GPSData(latitude, longitude, altitude) ==
    [latitude |-> latitude, longitude |-> longitude, altitude |-> altitude,
     accuracy |-> None]

\* the position after a match of  [+-]\d+\.\d+  at position i of s, 0 if none
ScanCoordinate(s, i) ==
    LET intEnd == DigitsEnd(s, i + 1)
        fracEnd == DigitsEnd(s, intEnd + 1)
    IN  IF /\ IsSign(CharAt(s, i))
           /\ intEnd > i + 1
           /\ CharAt(s, intEnd) = "."
           /\ fracEnd > intEnd + 1
        THEN fracEnd
        ELSE 0

\* the position after the longest match of  [+-]\d+\.?\d*  at position i of s,
\* 0 if none
ScanAltitude(s, i) ==
    LET intEnd == DigitsEnd(s, i + 1)
    IN  IF IsSign(CharAt(s, i)) /\ intEnd > i + 1
        THEN IF CharAt(s, intEnd) = "." THEN DigitsEnd(s, intEnd + 1) ELSE intEnd
        ELSE 0

\* re.match(r'^([+-]\d+\.\d+)([+-]\d+\.\d+)([+-]\d+\.?\d*)?/?$', s): the three
\* groups (group 3 is "" when it took no part), or None without a match.  Each
\* group ends where the next sign, the "/" or the end of s forces it to, so
\* the greedy scan finds the match whenever one exists.
MatchIso6709(s) ==
    LET e1 == ScanCoordinate(s, 1)
        e2 == IF e1 = 0 THEN 0 ELSE ScanCoordinate(s, e1)
        a3 == IF e2 = 0 THEN 0 ELSE ScanAltitude(s, e2)
        e3 == IF a3 = 0 THEN e2 ELSE a3
        e4 == IF CharAt(s, e3) = "/" THEN e3 + 1 ELSE e3
    IN  IF e2 # 0 /\ e4 = Len(s) + 1
        THEN Some([g1 |-> SubSeq(s, 1, e1 - 1),
                   g2 |-> SubSeq(s, e1, e2 - 1),
                   g3 |-> SubSeq(s, e2, e3 - 1)])
        ELSE None

\* parse_iso6709 matching the text as handed over, without strip()
parse_iso6709_NoStrip(location_string) ==
    IF location_string = "" THEN None
    ELSE LET match == MatchIso6709(location_string)
         IN  IF match = None THEN None
             ELSE LET latitude == ParseFloat(match[1].g1)
                      longitude == ParseFloat(match[1].g2)
                      altitude == IF match[1].g3 # "" THEN ParseFloat(match[1].g3)
                                  ELSE Some(Float(FALSE, 0))
                  IN  IF latitude = None \/ longitude = None \/ altitude = None
                      THEN None
                      ELSE Some(GPSData(latitude[1], longitude[1], altitude[1]))

parse_iso6709(location_string) ==
    IF location_string = "" THEN None
    ELSE LET match == MatchIso6709(Strip(location_string))
         IN  IF match = None THEN None
             ELSE LET latitude == ParseFloat(match[1].g1)
                      longitude == ParseFloat(match[1].g2)
                      altitude == IF match[1].g3 # "" THEN ParseFloat(match[1].g3)
                                  ELSE Some(Float(FALSE, 0))
                  IN  IF latitude = None \/ longitude = None \/ altitude = None
                      THEN None
                      ELSE Some(GPSData(latitude[1], longitude[1], altitude[1]))

\* Values of the com.apple.quicktime.location.ISO6709 tag (None: no such tag)
LocationTexts ==
    {None, Some(""),
     Some("+50.80+012.90+311.39/"), Some("+50.80+012.90/"),
     Some("+50.80-012.90+311.39/"), Some("-33.86+151.20-5.5"),
     Some("+50.80+012.90+311/"), Some(" +50.80+012.90/\n"), Some("-0.0-0.0/"),
     Some("50.80+012.90/"), Some("+50+012/"), Some("+50.80/"),
     Some("+50.80+012.90+311.39/x"), Some("50 48 N 12 54 E")}

\* Values of the com.apple.quicktime.location.accuracy.horizontal tag
AccuracyTexts == {None, Some(""), Some("65.0"), Some("-5.0"), Some("about 5m")}

\* One run of ffprobe -show_format: as FfprobeRuns, the JSON object reduced to
\* format.tags (format: the "format" key is present)
GpsRuns ==
    [exc : {"TimeoutExpired", "FileNotFoundError", "OSError"}, returncode : {0},
     json : {[kind |-> "invalid", format |-> FALSE, location |-> None, accuracy |-> None]}]
    \cup [exc : {"none"}, returncode : {1},
          json : {[kind |-> "invalid", format |-> FALSE, location |-> None, accuracy |-> None]}]
    \cup [exc : {"none"}, returncode : {0},
          json : {[kind |-> "invalid", format |-> FALSE, location |-> None, accuracy |-> None],
                  [kind |-> "array", format |-> FALSE, location |-> None, accuracy |-> None],
                  [kind |-> "object", format |-> FALSE, location |-> None, accuracy |-> None]}]
    \cup [exc : {"none"}, returncode : {0},
          json : [kind : {"object"}, format : {TRUE}, location : LocationTexts,
                  accuracy : AccuracyTexts]]

\* extract_gps_from_video giving up on the coordinates when the accuracy tag
\* is no number
extract_gps_from_video_AccuracyRequired(run) ==
    IF run.exc # "none" THEN [raised |-> FALSE, gps |-> None]
    ELSE IF run.returncode # 0 THEN [raised |-> FALSE, gps |-> None]
    ELSE IF run.json.kind = "invalid" THEN [raised |-> FALSE, gps |-> None]
    ELSE IF run.json.kind # "object" THEN [raised |-> TRUE, gps |-> None]
    ELSE LET location_str == Get(run.json.location, "")
             gps == IF location_str # "" THEN parse_iso6709(location_str) ELSE None
             accuracy_str == Get(run.json.accuracy, "")
             accuracy == IF accuracy_str # "" THEN ParseFloat(accuracy_str) ELSE None
         IN  IF gps = None THEN [raised |-> FALSE, gps |-> None]
             ELSE IF accuracy_str = "" THEN [raised |-> FALSE, gps |-> gps]
             ELSE IF accuracy = None THEN [raised |-> FALSE, gps |-> None]
             ELSE [raised |-> FALSE,
                   gps |-> Some([gps[1] EXCEPT !.accuracy = accuracy])]

\* extract_gps_from_video(video_path) when ffprobe does `run`
extract_gps_from_video(run) ==
    IF run.exc # "none" THEN [raised |-> FALSE, gps |-> None]
    ELSE IF run.returncode # 0 THEN [raised |-> FALSE, gps |-> None]
    ELSE IF run.json.kind = "invalid" THEN [raised |-> FALSE, gps |-> None]
    ELSE IF run.json.kind # "object" THEN [raised |-> TRUE, gps |-> None]
    ELSE LET location_str == Get(run.json.location, "")
             gps == IF location_str # "" THEN parse_iso6709(location_str) ELSE None
             accuracy_str == Get(run.json.accuracy, "")
             accuracy == IF accuracy_str # "" THEN ParseFloat(accuracy_str) ELSE None
         IN  IF gps = None THEN [raised |-> FALSE, gps |-> None]
             ELSE IF accuracy = None THEN [raised |-> FALSE, gps |-> gps]
             ELSE [raised |-> FALSE,
                   gps |-> Some([gps[1] EXCEPT !.accuracy = accuracy])]

\* every (run, outcome) pair of extract_gps_from_video over GpsRuns
GpsExtractions ==
    {[run |-> run, result |-> extract_gps_from_video(run)] : run \in GpsRuns}

-----------------------------------------------------------------------------
(* exif_writer.py *)

\* The products of a call are binary floating-point products: one whose decimal
\* value is a whole number of hundredths can come out a hair below it, and int()
\* then gives one hundredth less (int(311.39 * 100) is 31138; 50.80 degrees
\* becomes 50 deg 47 min 59.99 s).  Which products of a call fall below is
\* fixed by the values; the model lets each one fall below or not.
Roundings ==
    [latitude : BOOLEAN, longitude : BOOLEAN, altitude : BOOLEAN, accuracy : BOOLEAN]
Exact ==
    [latitude |-> FALSE, longitude |-> FALSE, altitude |-> FALSE, accuracy |-> FALSE]

\* int() of a product whose decimal value is `hundredths`: one less when the
\* product fell below, which a product of whole numbers (fraction 0) never does
Truncated(hundredths, fraction, below) ==
    IF below /\ fraction # 0 /\ hundredths > 0 THEN hundredths - 1 ELSE hundredths

\* decimal_to_dms without abs(): int() truncates towards zero, so a negative
\* coordinate gives negative degrees, minutes and seconds
decimal_to_dms_Signed(decimal_degrees, below) ==
    LET mag == decimal_degrees.mag
        sign == IF decimal_degrees.neg THEN -1 ELSE 1
        fraction == mag % Scale
        hundredths == Truncated((fraction * 360000) \div Scale, fraction, below)
    IN  <<<<sign * (mag \div Scale), 1>>, <<sign * (hundredths \div 6000), 1>>,
          <<sign * (hundredths % 6000), 100>>>>

\* decimal_to_dms: ((degrees, 1), (minutes, 1), (int(seconds * 100), 100));
\* degrees is exact, minutes and seconds share what the fraction's products give
decimal_to_dms(decimal_degrees, below) ==
    LET mag == FAbs(decimal_degrees).mag
        degrees == mag \div Scale
        fraction == mag % Scale
        hundredths == Truncated((fraction * 360000) \div Scale, fraction, below)
    IN  <<<<degrees, 1>>, <<hundredths \div 6000, 1>>, <<hundredths % 6000, 100>>>>

\* (int(abs(x) * 100), 100)
CentiRational(x, below) ==
    <<Truncated((FAbs(x).mag * 100) \div Scale, FAbs(x).mag % Scale, below), 100>>

\* (int(x * 100), 100): int() truncates towards zero and the sign stays
SignedCentiRational(x, below) ==
    <<(IF x.neg THEN -1 ELSE 1) * CentiRational(x, below)[1], 100>>

\* the GPS IFD embed_gps_in_jpeg builds from gps (lines 65-88)
GpsIfd(gps, fp) ==
    [GPSLatitudeRef |-> IF GeZero(gps.latitude) THEN "N" ELSE "S",
     GPSLatitude |-> decimal_to_dms(gps.latitude, fp.latitude),
     GPSLongitudeRef |-> IF GeZero(gps.longitude) THEN "E" ELSE "W",
     GPSLongitude |-> decimal_to_dms(gps.longitude, fp.longitude),
     GPSAltitudeRef |-> IF GeZero(gps.altitude) THEN 0 ELSE 1,
     GPSAltitude |-> CentiRational(gps.altitude, fp.altitude),
     GPSHPositioningError |-> IF gps.accuracy # None
                              THEN Some(SignedCentiRational(gps.accuracy[1], fp.accuracy))
                              ELSE None]

\* the structure used when the file holds no readable EXIF
EmptyExif ==
    [zeroth |-> "", exif |-> "", gps |-> None, first |-> "", thumbnail |-> None]

\* What piexif does in one call of embed_gps_in_jpeg: how load ends ("ok",
\* "InvalidImageDataError": the file holds no EXIF piexif can read, or "error":
\* any other exception), and whether dump and insert end "ok" or in an "error"
PiexifRuns ==
    [load : {"ok", "InvalidImageDataError", "error"},
     dump : {"ok", "error"},
     insert : {"ok", "error"}]

\* embed_gps_in_jpeg returning True without regard to how piexif.insert ended
embed_gps_in_jpeg_InsertUnchecked(file, gps, px, fp) ==
    IF ~file.exists
    THEN [result |-> FALSE, raised |-> FALSE, calls |-> << >>, file |-> file]
    ELSE IF px.load = "error"
    THEN [result |-> FALSE, raised |-> FALSE, calls |-> <<"load">>, file |-> file]
    ELSE IF gps = None
    THEN [result |-> FALSE, raised |-> FALSE, calls |-> <<"load">>, file |-> file]
    ELSE IF px.dump = "error"
    THEN [result |-> FALSE, raised |-> FALSE, calls |-> <<"load", "dump">>,
          file |-> file]
    ELSE LET exif_dict == IF px.load = "ok" THEN file.exif ELSE EmptyExif
         IN  [result |-> TRUE, raised |-> FALSE,
              calls |-> <<"load", "dump", "insert">>,
              file |-> IF px.insert = "error" THEN file
                       ELSE [file EXCEPT !.exif =
                                [exif_dict EXCEPT !.gps = Some(GpsIfd(gps[1], fp))]]]

\* embed_gps_in_jpeg(jpeg_path, gps) on the file `file` when piexif does `px`
\* and the float products round as `fp`;
\* gps is the Optional caller's value (None raises AttributeError at
\* gps.latitude, inside the try).  Gives the value returned, the piexif
\* functions called in order, and the file afterwards.
embed_gps_in_jpeg(file, gps, px, fp) ==
    IF ~file.exists
    THEN [result |-> FALSE, raised |-> FALSE, calls |-> << >>, file |-> file]
    ELSE IF px.load = "error"
    THEN [result |-> FALSE, raised |-> FALSE, calls |-> <<"load">>, file |-> file]
    ELSE IF gps = None
    THEN [result |-> FALSE, raised |-> FALSE, calls |-> <<"load">>, file |-> file]
    ELSE IF px.dump = "error"
    THEN [result |-> FALSE, raised |-> FALSE, calls |-> <<"load", "dump">>,
          file |-> file]
    ELSE IF px.insert = "error"
    THEN [result |-> FALSE, raised |-> FALSE, calls |-> <<"load", "dump", "insert">>,
          file |-> file]
    ELSE LET exif_dict == IF px.load = "ok" THEN file.exif ELSE EmptyExif
         IN  [result |-> TRUE, raised |-> FALSE,
              calls |-> <<"load", "dump", "insert">>,
              file |-> [file EXCEPT !.exif = [exif_dict EXCEPT !.gps = Some(GpsIfd(gps[1], fp))]]]

\* the EXIF a saved frame may already carry
ExifSamples ==
    {EmptyExif,
     [zeroth |-> "Make=Apple", exif |-> "DateTimeOriginal=2024:01:01 10:00:00",
      gps |-> Some(GpsIfd(GPSData(Float(FALSE, 0), Float(FALSE, 0), Float(FALSE, 0)), Exact)),
      first |-> "", thumbnail |-> Some("thumb")]}

JpegFiles == [exists : BOOLEAN, exif : ExifSamples]

-----------------------------------------------------------------------------
(* The Frame Selector (spec.md 4.3) *)

\* A candidate frame after analysis: Scored with a sharpness score, or
\* Unusable with no score.  Its sequence_index is its position, counted from 0;
\* frames are sampled at a fixed rate, so source_timestamp is sequence_index.
Scored(score) == [status |-> "Scored", sharpness_score |-> Some(score)]
Unusable == [status |-> "Unusable", sharpness_score |-> None]

CandidateValues == {Unusable} \cup {Scored(sc) : sc \in 0..MaxScore}
CandidateSets == UNION {[1..n -> CandidateValues] : n \in 0..MaxCandidates}

\* the candidate with sequence_index i of the ordered set cs
At(cs, i) == cs[i + 1]
IsUsable(cs, i) == At(cs, i).status = "Scored"
ScoreOf(cs, i) == At(cs, i).sharpness_score[1]

\* Step 1: K contiguous windows over all n candidates, the first n mod K of
\* them one element longer.  Window w (from 0) holds WindowStart..WindowEnd - 1.
WindowStart(n, k, w) ==
    w * (n \div k) + (IF w < n % k THEN w ELSE n % k)
WindowEnd(n, k, w) == WindowStart(n, k, w + 1)

RECURSIVE ScanWindow_LatestOfEquals(_, _, _, _)
\* the scan with >= for >: the latest of equals is kept
ScanWindow_LatestOfEquals(cs, i, hi, best) ==
    IF i >= hi THEN best
    ELSE IF ~IsUsable(cs, i) THEN ScanWindow_LatestOfEquals(cs, i + 1, hi, best)
    ELSE IF best = None THEN ScanWindow_LatestOfEquals(cs, i + 1, hi, Some(i))
    ELSE IF ScoreOf(cs, i) >= ScoreOf(cs, best[1])
    THEN ScanWindow_LatestOfEquals(cs, i + 1, hi, Some(i))
    ELSE ScanWindow_LatestOfEquals(cs, i + 1, hi, best)

RECURSIVE ScanWindow(_, _, _, _)
\* Step 2, as a scan of the indices i..hi-1 in order with the best so far:
\* a Usable candidate replaces the best only with a strictly higher score, so
\* the earliest of equals is kept
ScanWindow(cs, i, hi, best) ==
    IF i >= hi THEN best
    ELSE IF ~IsUsable(cs, i) THEN ScanWindow(cs, i + 1, hi, best)
    ELSE IF best = None THEN ScanWindow(cs, i + 1, hi, Some(i))
    ELSE IF ScoreOf(cs, i) > ScoreOf(cs, best[1]) THEN ScanWindow(cs, i + 1, hi, Some(i))
    ELSE ScanWindow(cs, i + 1, hi, best)

RECURSIVE ScanAnyStatus(_, _, _, _)
\* the scan with no regard to status: an Unusable candidate (score taken as 0)
\* can be chosen
ScanAnyStatus(cs, i, hi, best) ==
    IF i >= hi THEN best
    ELSE IF best = None THEN ScanAnyStatus(cs, i + 1, hi, Some(i))
    ELSE IF Get(At(cs, i).sharpness_score, 0) > Get(At(cs, best[1]).sharpness_score, 0)
    THEN ScanAnyStatus(cs, i + 1, hi, Some(i))
    ELSE ScanAnyStatus(cs, i + 1, hi, best)

\* the choice of window w made among all its candidates, Usable or not
SelectInWindow_AnyStatus(cs, k, w) ==
    ScanAnyStatus(cs, WindowStart(Len(cs), k, w), WindowEnd(Len(cs), k, w), None)

\* the choice of window w made with the scan running one index past the
\* window's end
SelectInWindow_PastEnd(cs, k, w) ==
    LET hi == WindowEnd(Len(cs), k, w)
    IN  ScanWindow(cs, WindowStart(Len(cs), k, w),
                   IF hi < Len(cs) THEN hi + 1 ELSE hi, None)

\* Steps 2 and 3: the choice of window w, None when it holds no Usable candidate
SelectInWindow(cs, k, w) ==
    ScanWindow(cs, WindowStart(Len(cs), k, w), WindowEnd(Len(cs), k, w), None)

RECURSIVE AvoidDuplicates(_, _, _, _, _)
\* Step 4 over the windows w.. in order: kept is the result so far, keptWindow
\* the window its last index came from (-1: none).  A choice nearer than gap to
\* the choice of the window before it competes with it: the lower score is
\* dropped, the earlier one kept between equals.
AvoidDuplicates(cs, ps, gap, w, acc) ==
    IF w > Len(ps) THEN acc.kept
    ELSE IF ps[w] = None THEN AvoidDuplicates(cs, ps, gap, w + 1, acc)
    ELSE LET p == ps[w][1]
             n == Len(acc.kept)
             clash == /\ n > 0
                      /\ acc.keptWindow = w - 1
                      /\ p - acc.kept[n] < gap
         IN  IF ~clash
             THEN AvoidDuplicates(cs, ps, gap, w + 1,
                                  [kept |-> Append(acc.kept, p), keptWindow |-> w])
             ELSE IF ScoreOf(cs, p) > ScoreOf(cs, acc.kept[n])
             THEN AvoidDuplicates(cs, ps, gap, w + 1,
                                  [kept |-> Append(SubSeq(acc.kept, 1, n - 1), p),
                                   keptWindow |-> w])
             ELSE AvoidDuplicates(cs, ps, gap, w + 1, acc)

\* the choices of the windows in window order, windows without one left out
RECURSIVE Chosen(_, _)
Chosen(ps, w) ==
    IF w > Len(ps) THEN << >>
    ELSE IF ps[w] = None THEN Chosen(ps, w + 1)
    ELSE <<ps[w][1]>> \o Chosen(ps, w + 1)

\* Step 4 runs only when a minimum gap is configured
FinalSelection(cs, ps, gap) ==
    IF gap = None THEN Chosen(ps, 1)
    ELSE AvoidDuplicates(cs, ps, gap[1], 1, [kept |-> << >>, keptWindow |-> -1])

\* the Selector is handed its input; K <= 0 is refused (InvalidTargetCount)
SelectorStart ==
    /\ sel_pc = "start"
    /\ sel_pc' = IF target_count <= 0 THEN "invalid_target_count" ELSE "windows"
    /\ UNCHANGED <<candidates, target_count, min_gap, picks, selected>>
    /\ UNCHANGED <<colorVars, zscaleVars, gpsVars, orchestratorVars, parseVars>>

\* the next window makes its choice
SelectWindow ==
    /\ sel_pc = "windows"
    /\ Len(picks) < target_count
    /\ picks' = Append(picks, SelectInWindow(candidates, target_count, Len(picks)))
    /\ UNCHANGED <<candidates, target_count, min_gap, sel_pc, selected>>
    /\ UNCHANGED <<colorVars, zscaleVars, gpsVars, orchestratorVars, parseVars>>

\* all windows handled: the duplicate-avoidance pass, then the result
SelectorFinish ==
    /\ sel_pc = "windows"
    /\ Len(picks) = target_count
    /\ selected' = FinalSelection(candidates, picks, min_gap)
    /\ sel_pc' = "done"
    /\ UNCHANGED <<candidates, target_count, min_gap, picks>>
    /\ UNCHANGED <<colorVars, zscaleVars, gpsVars, orchestratorVars, parseVars>>

SelectorIdle ==
    /\ candidates = << >>
    /\ target_count = 1
    /\ min_gap = None
    /\ sel_pc = "idle"
    /\ picks = << >>
    /\ selected = << >>

-----------------------------------------------------------------------------
(* The Pipeline Orchestrator of spec.md section 4.5 (tui_processor.py is not  *)
(* part of the sources): the phases of a run, the persisted run checkpoint,   *)
(* cancellation, failure and resumption.                                      *)

Phases == <<"NotStarted", "Extracting", "Analyzing", "Selecting", "Saving", "Completed">>
WorkPhases == {"Extracting", "Analyzing", "Selecting", "Saving"}

PhaseIndex(p) == CHOOSE i \in 1..Len(Phases) : Phases[i] = p
NextPhase(p) == Phases[PhaseIndex(p) + 1]

IsTerminal_AbortedOnly(p) == p = "Aborted"

\* Completed and Aborted are the terminal phases
IsTerminal(p) == p \in {"Completed", "Aborted"}

\* the run checkpoint holds the last phase that completed, None while no phase has
Checkpoint(last) == [last_completed |-> last]

\* the phases a checkpoint records as completed: all up to its last completed one
CompletedPhases(cp) ==
    IF cp = None \/ cp[1].last_completed = None
    THEN {}
    ELSE {Phases[i] : i \in 2..PhaseIndex(cp[1].last_completed[1])}

CheckpointAtStart_ExtractionRecorded(cp) == Some(Checkpoint(Some("Extracting")))

\* the checkpoint is created at phase start; a resumed run keeps the one it found
CheckpointAtStart(cp) == IF cp = None THEN Some(Checkpoint(None)) ELSE cp

\* the checkpoint is updated at phase completion and discarded on the successful
\* final save
CheckpointAfter(cp, p) ==
    IF p = "Saving" THEN None
    ELSE IF p \in CompletedPhases(cp) THEN cp
    ELSE Some(Checkpoint(Some(p)))

\* a phase is complete when the checkpoint records it or all its work is done
PhaseDone(cp, p, done) == p \in CompletedPhases(cp) \/ done = PhaseUnits

\* the run begins: the first phase starts
StartRun ==
    /\ phase = "NotStarted"
    /\ phase' = "Extracting"
    /\ trail' = Append(trail, "Extracting")
    /\ checkpoint' = CheckpointAtStart(checkpoint)
    /\ units_done' = 0
    /\ UNCHANGED <<run_no, executed, finished, outcome, resumed_from>>
    /\ UNCHANGED <<colorVars, zscaleVars, gpsVars, selectorVars, parseVars>>

\* one unit of the current phase's work; a phase the checkpoint records as
\* completed has no work left to do
WorkUnit ==
    /\ phase \in WorkPhases
    /\ phase \notin CompletedPhases(checkpoint)
    /\ units_done < PhaseUnits
    /\ units_done' = units_done + 1
    /\ executed' = executed \cup {phase}
    /\ UNCHANGED <<phase, run_no, checkpoint, finished, trail, outcome, resumed_from>>
    /\ UNCHANGED <<colorVars, zscaleVars, gpsVars, selectorVars, parseVars>>

\* the phase completed: the checkpoint is written and the next phase entered
CompletePhase ==
    /\ phase \in WorkPhases
    /\ PhaseDone(checkpoint, phase, units_done)
    /\ phase' = NextPhase(phase)
    /\ trail' = Append(trail, NextPhase(phase))
    /\ checkpoint' = CheckpointAfter(checkpoint, phase)
    /\ finished' = IF phase = "Saving" THEN {} ELSE finished \cup {phase}
    /\ units_done' = 0
    /\ UNCHANGED <<run_no, executed, outcome, resumed_from>>
    /\ UNCHANGED <<colorVars, zscaleVars, gpsVars, selectorVars, parseVars>>

\* a phase-level failure of the work in hand (for extraction: the tool exits
\* non-zero or times out) halts the run
PhaseFails ==
    /\ phase \in WorkPhases
    /\ phase \notin CompletedPhases(checkpoint)
    /\ phase' = "Aborted"
    /\ trail' = Append(trail, "Aborted")
    /\ outcome' = Some(IF phase = "Extracting" THEN "ExtractionFailed" ELSE "PhaseFailed")
    /\ UNCHANGED <<run_no, checkpoint, units_done, executed, finished, resumed_from>>
    /\ UNCHANGED <<colorVars, zscaleVars, gpsVars, selectorVars, parseVars>>

\* the cancellation signal is observed
Cancel ==
    /\ ~IsTerminal(phase)
    /\ phase' = "Aborted"
    /\ trail' = Append(trail, "Aborted")
    /\ outcome' = Some("Cancelled")
    /\ UNCHANGED <<run_no, checkpoint, units_done, executed, finished, resumed_from>>
    /\ UNCHANGED <<colorVars, zscaleVars, gpsVars, selectorVars, parseVars>>

\* the process is started again on the same run identity and reads the checkpoint
Restart ==
    /\ IsTerminal(phase)
    /\ run_no < MaxRuns
    /\ run_no' = run_no + 1
    /\ phase' = "NotStarted"
    /\ trail' = <<"NotStarted">>
    /\ units_done' = 0
    /\ executed' = {}
    /\ outcome' = None
    /\ resumed_from' = Some([completed |-> CompletedPhases(checkpoint), after |-> outcome])
    /\ UNCHANGED <<checkpoint, finished>>
    /\ UNCHANGED <<colorVars, zscaleVars, gpsVars, selectorVars, parseVars>>

\* explicit reset: the checkpoint of a run that has ended is discarded
ResetCheckpoint ==
    /\ IsTerminal(phase)
    /\ checkpoint # None
    /\ checkpoint' = None
    /\ finished' = {}
    /\ UNCHANGED <<phase, run_no, units_done, executed, trail, outcome, resumed_from>>
    /\ UNCHANGED <<colorVars, zscaleVars, gpsVars, selectorVars, parseVars>>

OrchestratorIdle ==
    /\ phase = "NotStarted"
    /\ run_no = 1
    /\ checkpoint = None
    /\ units_done = 0
    /\ executed = {}
    /\ finished = {}
    /\ trail = <<"NotStarted">>
    /\ outcome = None
    /\ resumed_from = None

-----------------------------------------------------------------------------
(* The colour pipeline: detection, then the filter for the extraction *)

\* every (run, outcome) pair of detect_color_space over FfprobeRuns
Detections ==
    {[run |-> RunSummary(run), result |-> detect_color_space(run)] : run \in FfprobeRuns}

\* the run's one video is probed once
DetectColorSpace ==
    /\ ffprobe = None
    /\ \E d \in Detections :
        LET r == d.result
        IN  /\ ffprobe' = Some(d.run)
            /\ detect_raised' = r.raised
            /\ color_info' = IF r.raised THEN color_info ELSE r.info
            /\ built' = FALSE
            /\ filter_result' = None
            /\ UNCHANGED <<zscaleVars, gpsVars, selectorVars, orchestratorVars, parseVars>>

BuildColorspaceFilter ==
    /\ ~detect_raised
    /\ FilterBranch(color_info) = "hdr" => Len(returns) < MaxCalls
    /\ \E probe \in ProbeAnswers :
        LET z == is_zscale_available(_zscale_available, probe)
        IN  /\ filter_result' = build_colorspace_filter(color_info, z.value)
            /\ IF FilterBranch(color_info) = "hdr"
               THEN ZscaleCalled(z)
               ELSE UNCHANGED zscaleVars
    /\ built' = TRUE
    /\ UNCHANGED <<color_info, ffprobe, detect_raised>>
    /\ UNCHANGED <<gpsVars, selectorVars, orchestratorVars, parseVars>>

\* a direct call of is_zscale_available()
IsZscaleAvailable ==
    /\ Len(returns) < MaxCalls
    /\ \E probe \in ProbeAnswers :
        ZscaleCalled(is_zscale_available(_zscale_available, probe))
    /\ UNCHANGED <<colorVars, gpsVars, selectorVars, orchestratorVars, parseVars>>

\* cs._zscale_available = None, as the tests do before probing again
ResetZscaleCache ==
    /\ resets < MaxResets
    /\ _zscale_available' = None
    /\ resets' = resets + 1
    /\ UNCHANGED <<probes, returns>>
    /\ UNCHANGED <<colorVars, gpsVars, selectorVars, orchestratorVars, parseVars>>

-----------------------------------------------------------------------------
(* GPS: read from the video once, embedded into each saved frame *)

\* the metadata of the run's one video is read once, before any frame is saved
ExtractGpsFromVideo ==
    /\ gps_probe = None
    /\ embed_call = None
    /\ \E x \in GpsExtractions :
        /\ gps_probe' = Some(x.run)
        /\ gps_raised' = x.result.raised
        /\ gps_result' = x.result.gps
    /\ embed_call' = None
    /\ UNCHANGED jpeg
    /\ UNCHANGED <<colorVars, zscaleVars, selectorVars, orchestratorVars, parseVars>>

EmbedGpsInJpeg ==
    /\ ~gps_raised
    /\ \E px \in PiexifRuns, fp \in Roundings :
        LET r == embed_gps_in_jpeg(jpeg, gps_result, px, fp)
        IN  /\ px.load = "InvalidImageDataError" => jpeg.exif = EmptyExif
            /\ embed_call' = Some([gps |-> gps_result, piexif |-> px, before |-> jpeg,
                                   result |-> r.result, raised |-> r.raised,
                                   calls |-> r.calls])
            /\ jpeg' = r.file
    /\ UNCHANGED <<gps_probe, gps_raised, gps_result>>
    /\ UNCHANGED <<colorVars, zscaleVars, selectorVars, orchestratorVars, parseVars>>

GpsIdle ==
    /\ gps_probe = None
    /\ gps_raised = FALSE
    /\ gps_result = None
    /\ jpeg = [exists |-> FALSE, exif |-> EmptyExif]
    /\ embed_call = None

\* Texts handed to parse_iso6709: a latitude, a longitude and an altitude part,
\* each well-formed, malformed or absent, what follows them, and white space
\* around the whole
LocationStrings ==
    {lead \o lat \o lon \o alt \o tail \o trail_ :
        lead \in {"", " "},
        lat \in {"+50.80", "-33.86", "-0.0", "50.80", "+50"},
        lon \in {"+012.90", "-012.90", "012.90", "+012", ""},
        alt \in {"", "+311.39", "-5.5", "+311", "+311.", "311.39"},
        tail \in {"", "/", "/x", "//"},
        trail_ \in {"", "\n"}}
    \cup {"", " ", "50 48 N 12 54 E"}

\* a direct call of parse_iso6709 on the text
ParseIso6709 ==
    /\ parse_result = None
    /\ parse_result' = Some(parse_iso6709(parse_input))
    /\ UNCHANGED parse_input
    /\ UNCHANGED <<colorVars, zscaleVars, gpsVars, selectorVars, orchestratorVars>>

ParseIdle ==
    /\ parse_input = ""
    /\ parse_result = None

ZscaleInit ==
    /\ _zscale_available = None
    /\ probes = << >>
    /\ returns = << >>
    /\ resets = 0

ColorIdle ==
    /\ color_info = _default_color_info
    /\ ffprobe = None
    /\ detect_raised = FALSE
    /\ built = FALSE
    /\ filter_result = None

\* A VideoColorInfo is constructed directly (any field combination, as the
\* dataclass allows) or comes from detect_color_space
Init ==
    /\ color_info \in VideoColorInfo
    /\ ffprobe = None
    /\ detect_raised = FALSE
    /\ built = FALSE
    /\ filter_result = None
    /\ ZscaleInit
    /\ GpsIdle
    /\ SelectorIdle
    /\ OrchestratorIdle
    /\ ParseIdle

Next ==
    \/ DetectColorSpace
    \/ BuildColorspaceFilter

Spec == Init /\ [][Next]_vars

\* The capability cache on its own: calls and resets in one process
InitZscale ==
    ColorIdle /\ ZscaleInit /\ GpsIdle /\ SelectorIdle /\ OrchestratorIdle
    /\ ParseIdle

NextZscale ==
    \/ IsZscaleAvailable
    \/ ResetZscaleCache

SpecZscale == InitZscale /\ [][NextZscale]_vars

\* The GPS collaborators on their own: one video, one saved frame
InitGps ==
    /\ ColorIdle
    /\ ZscaleInit
    /\ gps_probe = None
    /\ gps_raised = FALSE
    /\ gps_result = None
    /\ jpeg \in JpegFiles
    /\ embed_call = None
    /\ SelectorIdle
    /\ OrchestratorIdle
    /\ ParseIdle

NextGps ==
    \/ ExtractGpsFromVideo
    \/ EmbedGpsInJpeg

SpecGps == InitGps /\ [][NextGps]_vars

\* The Frame Selector on every scored set, target count and gap setting
InitSelector ==
    /\ ColorIdle
    /\ ZscaleInit
    /\ GpsIdle
    /\ candidates \in CandidateSets
    /\ target_count \in 0..MaxTarget
    /\ min_gap \in {None} \cup {Some(g) : g \in 1..MaxGap}
    /\ sel_pc = "start"
    /\ picks = << >>
    /\ selected = << >>
    /\ OrchestratorIdle
    /\ ParseIdle

NextSelector ==
    \/ SelectorStart
    \/ SelectWindow
    \/ SelectorFinish

SpecSelector == InitSelector /\ [][NextSelector]_vars

\* parse_iso6709 on its own, on every text of LocationStrings
InitParse ==
    /\ ColorIdle
    /\ ZscaleInit
    /\ GpsIdle
    /\ SelectorIdle
    /\ OrchestratorIdle
    /\ parse_input \in LocationStrings
    /\ parse_result = None

NextParse == ParseIso6709

SpecParse == InitParse /\ [][NextParse]_vars

\* The Orchestrator: a first run and the runs that resume it
InitOrchestrator ==
    ColorIdle /\ ZscaleInit /\ GpsIdle /\ SelectorIdle /\ OrchestratorIdle
    /\ ParseIdle

NextOrchestrator ==
    \/ StartRun
    \/ WorkUnit
    \/ CompletePhase
    \/ PhaseFails
    \/ Cancel
    \/ Restart
    \/ ResetCheckpoint

SpecOrchestrator == InitOrchestrator /\ [][NextOrchestrator]_vars

-----------------------------------------------------------------------------
(* Properties of the colour pipeline *)

\* the filter string returned, "" when None was returned
FilterText == Get(filter_result, "")

\* what is_zscale_available() answered in the latest call
ZscaleAnswer == returns[Len(returns)]

\* C1: an info that is not HDR, with primaries BT709 or UNKNOWN and transfer
\* BT709, SRGB or UNKNOWN (any matrix), needs no conversion, and
\* build_colorspace_filter returns None for it
C1_StandardOrUnknownNoFilter ==
    (/\ built
     /\ ~color_info.is_hdr
     /\ color_info.color_primaries \in {"BT709", "UNKNOWN"}
     /\ color_info.transfer_function \in {"BT709", "SRGB", "UNKNOWN"})
    => /\ ~needs_conversion(color_info)
       /\ filter_result = None

\* C1 witness: the filter was built for an all-UNKNOWN info and is None
C1_Witness ==
    /\ built
    /\ color_info.color_primaries = "UNKNOWN"
    /\ color_info.transfer_function = "UNKNOWN"
    /\ color_info.color_matrix = "UNKNOWN"
    /\ ~color_info.is_hdr
    /\ filter_result = None

\* the ffprobe failures C2 lists: a non-zero exit, a timeout, a missing
\* executable, output that is no JSON, an empty stream list
ProbeFailed(run) ==
    \/ run.exc \in {"TimeoutExpired", "FileNotFoundError"}
    \/ run.exc = "none" /\ run.returncode # 0
    \/ run.exc = "none" /\ run.returncode = 0 /\ run.json_kind = "invalid"
    \/ run.exc = "none" /\ run.returncode = 0 /\ run.json_kind = "object"
       /\ run.n_streams = Some(0)

\* C2: after any of those failures detect_color_space has not raised and has
\* returned the all-UNKNOWN, non-HDR info without luminance, and the filter
\* built from that info is None
C2_DetectFailureGivesDefault ==
    (ffprobe # None /\ ProbeFailed(ffprobe[1]))
    => /\ ~detect_raised
       /\ color_info = [color_primaries |-> "UNKNOWN", transfer_function |-> "UNKNOWN",
                        color_matrix |-> "UNKNOWN", is_hdr |-> FALSE,
                        max_luminance |-> None]
       /\ built => filter_result = None

\* C2 witness: ffprobe reported an empty stream list and the filter was built
C2_Witness ==
    /\ ffprobe # None
    /\ ffprobe[1].json_kind = "object"
    /\ ffprobe[1].n_streams = Some(0)
    /\ built
    /\ filter_result = None

\* C3: with zscale available the filter of an HDR info is a chain with a zscale
\* stage and a hable tonemap stage that names the input transfer and input
\* primaries through tin= and pin=
C3_HdrChainNamesInput ==
    (built /\ color_info.is_hdr /\ returns # << >> /\ ZscaleAnswer)
    => /\ filter_result # None
       /\ Contains(FilterText, "zscale")
       /\ Contains(FilterText, "tonemap")
       /\ Contains(FilterText, "hable")
       /\ Contains(FilterText, "tin=")
       /\ Contains(FilterText, "pin=")

\* C4: without zscale the filter of an HDR info is still a filter: the
\* colorspace conversion to bt709, with no zscale stage
C4_HdrFallbackIsColorspace ==
    (built /\ color_info.is_hdr /\ returns # << >> /\ ~ZscaleAnswer)
    => /\ filter_result # None
       /\ SubSeq(FilterText, 1, Len("colorspace=")) = "colorspace="
       /\ Contains(FilterText, "all=bt709")
       /\ ~Contains(FilterText, "zscale")

\* C4 witness: an HDR10 info (BT.2020, PQ) got the fallback filter
C4_Witness ==
    /\ built
    /\ color_info.is_hdr
    /\ color_info.transfer_function = "PQ"
    /\ color_info.color_primaries = "BT2020"
    /\ returns # << >> /\ ~ZscaleAnswer
    /\ filter_result = Some("colorspace=all=bt709:fast=0")

-----------------------------------------------------------------------------
(* Properties of the capability cache *)

\* C7: from an empty cache, while the cell is never reset, the probe has run at
\* most once, it ran if any call was made, and every call returned what that
\* probe found (False too); in general a probe runs only on an empty cell, so
\* there are never more probes than resets plus one
C7_ProbedOncePerProcess ==
    /\ Len(probes) <= resets + 1
    /\ returns # << >> => probes # << >>
    /\ resets = 0 => \A i \in 1..Len(returns) : returns[i] = probes[1]

\* C7 witness: three calls and no reset, the one probe having found no zscale
C7_Witness ==
    /\ resets = 0
    /\ Len(returns) >= 3
    /\ probes = <<FALSE>>
    /\ _zscale_available = Some(FALSE)

-----------------------------------------------------------------------------
(* Properties of the GPS collaborators *)

\* the piexif functions a call went through
Called(c, fn) == \E i \in 1..Len(c.calls) : c.calls[i] = fn

\* the steps after the EXIF load that ended in an exception: building the GPS
\* fields (gps is None), piexif.dump, piexif.insert
LaterStepFailed(c) ==
    \/ Called(c, "load") /\ c.piexif.load # "error" /\ c.gps = None
    \/ Called(c, "dump") /\ c.piexif.dump = "error"
    \/ Called(c, "insert") /\ c.piexif.insert = "error"

\* what every call of embed_gps_in_jpeg satisfies, whatever counts as a failed
\* load: a boolean comes back and nothing is raised; a missing file gives False
\* with no piexif call and the file untouched; a failed step gives False; True
\* comes only after piexif.insert was called with the new GPS block
EmbedContract(c, loadFailed) ==
    /\ ~c.raised
    /\ c.result \in BOOLEAN
    /\ ~c.before.exists => (~c.result /\ c.calls = << >> /\ jpeg = c.before)
    /\ (loadFailed \/ LaterStepFailed(c)) => ~c.result
    /\ c.result => /\ c.calls # << >>
                   /\ c.calls[Len(c.calls)] = "insert"
                   /\ c.gps # None
                   /\ \E fp \in Roundings : jpeg.exif.gps = Some(GpsIfd(c.gps[1], fp))

\* C5 as claimed: embed_gps_in_jpeg returns a boolean and never raises, returns
\* False without loading or writing when the file is missing, returns False
\* when any step fails, the EXIF load included, and returns True only after
\* piexif.insert was called with the new GPS block
C5_FalseOnAnyFailedStep ==
    embed_call # None =>
        EmbedContract(embed_call[1],
                      Called(embed_call[1], "load") /\ embed_call[1].piexif.load # "ok")

\* C5 amended: as claimed, except that a load ending in InvalidImageDataError
\* is no failure: the call goes on with an empty EXIF structure and can return
\* True; only a load ending in another exception gives False
C5_FalseOnFailedStepButInvalidImage ==
    embed_call # None =>
        EmbedContract(embed_call[1],
                      Called(embed_call[1], "load") /\ embed_call[1].piexif.load = "error")

\* C5 witness: the load raised InvalidImageDataError, and the call returned
\* True with the GPS block written into an otherwise empty EXIF
C5_Witness ==
    /\ embed_call # None
    /\ embed_call[1].piexif.load = "InvalidImageDataError"
    /\ embed_call[1].result
    /\ \E fp \in Roundings :
          jpeg.exif = [EmptyExif EXCEPT !.gps = Some(GpsIfd(embed_call[1].gps[1], fp))]

\* the location texts of LocationTexts that are ISO 6709 as the pattern of
\* parse_iso6709 reads it
Iso6709Texts ==
    {"+50.80+012.90+311.39/", "+50.80+012.90/", "+50.80-012.90+311.39/",
     "-33.86+151.20-5.5", "+50.80+012.90+311/", " +50.80+012.90/\n", "-0.0-0.0/"}

\* the accuracy texts of AccuracyTexts that are numbers
NumberTexts == {"65.0", "-5.0"}

\* the ffprobe run ended in one of the failures C6 lists
GpsProbeFailed(run) ==
    \/ run.exc \in {"TimeoutExpired", "FileNotFoundError"}
    \/ run.exc = "none" /\ run.returncode # 0
    \/ run.exc = "none" /\ run.returncode = 0 /\ run.json.kind = "invalid"

\* the run gave a JSON object; its location tag, "" when absent
GpsProbeRead(run) ==
    run.exc = "none" /\ run.returncode = 0 /\ run.json.kind = "object"

\* C6: extract_gps_from_video returns None without raising after a failed
\* ffprobe run and when the location tag is absent, empty or not ISO 6709; it
\* returns a GPSData exactly when the tag is present and parses; an accuracy
\* tag that is no number leaves accuracy None and the coordinates in place
C6_GpsOnlyFromParsedTag ==
    gps_probe # None =>
        LET run == gps_probe[1]
            location == Get(run.json.location, "")
            accuracy == Get(run.json.accuracy, "")
        IN  /\ GpsProbeFailed(run) => (~gps_raised /\ gps_result = None)
            /\ GpsProbeRead(run) =>
                /\ ~gps_raised
                /\ gps_result # None <=> location \in Iso6709Texts
                /\ gps_result # None =>
                    /\ [gps_result[1] EXCEPT !.accuracy = None] = parse_iso6709(location)[1]
                    /\ accuracy \notin NumberTexts => gps_result[1].accuracy = None
                    /\ accuracy \in NumberTexts => gps_result[1].accuracy # None

\* C6 witness: a west-longitude tag was parsed while the accuracy tag was no
\* number: coordinates returned, accuracy None
C6_Witness ==
    /\ gps_probe # None
    /\ gps_probe[1].json.location = Some("+50.80-012.90+311.39/")
    /\ gps_probe[1].json.accuracy = Some("about 5m")
    /\ gps_result # None
    /\ gps_result[1].longitude.neg
    /\ gps_result[1].accuracy = None

-----------------------------------------------------------------------------
(* Properties of the Frame Selector *)

NumCandidates == Len(candidates)
UsableIndices == {i \in 0..(NumCandidates - 1) : IsUsable(candidates, i)}
SelectedSet == {selected[i] : i \in 1..Len(selected)}
Min(a, b) == IF a < b THEN a ELSE b

\* the indices of window w (from 0) of the K = target_count windows: the
\* first NumCandidates mod K windows hold one index more than the others
WindowIndices(w) ==
    LET base == NumCandidates \div target_count
        longer == NumCandidates % target_count
        lo == w * base + Min(w, longer)
        size == IF w < longer THEN base + 1 ELSE base
    IN  lo..(lo + size - 1)

\* the windows that hold at least one Usable candidate
LiveWindows ==
    {w \in 0..(target_count - 1) : WindowIndices(w) \cap UsableIndices # {}}

WindowSize(w) ==
    WindowEnd(NumCandidates, target_count, w) - WindowStart(NumCandidates, target_count, w)

\* C9: the K windows are contiguous, cover the N candidates (Unusable
\* included) and differ in size by at most one; every window's choice lies
\* inside that window, so a window contributes at most one index and the
\* result holds at most K; the minimum-gap pass only removes choices
C9_ChoicesStayInTheirWindows ==
    sel_pc \in {"windows", "done"} =>
        /\ WindowStart(NumCandidates, target_count, 0) = 0
        /\ WindowEnd(NumCandidates, target_count, target_count - 1) = NumCandidates
        /\ \A w \in 0..(target_count - 1) :
            /\ WindowSize(w) >= 0
            /\ \A v \in 0..(target_count - 1) : WindowSize(w) - WindowSize(v) <= 1
        /\ \A w \in 1..Len(picks) :
            picks[w] # None =>
                /\ WindowStart(NumCandidates, target_count, w - 1) <= picks[w][1]
                /\ picks[w][1] < WindowEnd(NumCandidates, target_count, w - 1)
        /\ sel_pc = "done" =>
            /\ Len(selected) <= target_count
            /\ SelectedSet \subseteq {picks[w][1] : w \in {v \in 1..Len(picks) : picks[v] # None}}
            /\ Len(selected) = Cardinality(SelectedSet)

\* C9 witness: the minimum-gap pass removed a choice: three windows chose,
\* two indices are left
C9_Witness ==
    /\ sel_pc = "done"
    /\ min_gap # None
    /\ target_count = 3
    /\ \A w \in 1..Len(picks) : picks[w] # None
    /\ Len(selected) = 2

\* C10: each window's choice is a Usable candidate of the window with the
\* maximum score, the lowest index among those with that score, and a window
\* makes no choice only when it has no Usable candidate; without a minimum gap
\* the result is exactly those choices; the result is in ascending index order.
\* The choice being unique, equal input gives equal output.
C10_SharpestThenEarliest ==
    sel_pc \in {"windows", "done"} =>
        /\ \A w \in 1..Len(picks) :
            LET usable == WindowIndices(w - 1) \cap UsableIndices
            IN  IF usable = {} THEN picks[w] = None
                ELSE /\ picks[w] # None
                     /\ picks[w][1] \in usable
                     /\ \A j \in usable :
                         /\ ScoreOf(candidates, j) <= ScoreOf(candidates, picks[w][1])
                         /\ ScoreOf(candidates, j) = ScoreOf(candidates, picks[w][1])
                            => picks[w][1] <= j
        /\ sel_pc = "done" =>
            /\ \A i \in 1..(Len(selected) - 1) : selected[i] < selected[i + 1]
            /\ min_gap = None =>
                SelectedSet = {picks[w][1] : w \in {v \in 1..Len(picks) : picks[v] # None}}

\* C10 witness: a window of two Usable candidates with the same score chose
\* the earlier one
C10_Witness ==
    /\ sel_pc = "done"
    /\ target_count = 1
    /\ NumCandidates = 3
    /\ UsableIndices = {1, 2}
    /\ ScoreOf(candidates, 1) = ScoreOf(candidates, 2)
    /\ selected = <<1>>

-----------------------------------------------------------------------------
(* Properties of the Orchestrator *)

\* the forward steps of the state machine
PhaseChain ==
    {<<"NotStarted", "Extracting">>, <<"Extracting", "Analyzing">>,
     <<"Analyzing", "Selecting">>, <<"Selecting", "Saving">>,
     <<"Saving", "Completed">>}

\* the phase p in hand has completed: its work is all done in this run, or the
\* checkpoint records it
Completion(p) ==
    p = "NotStarted" \/ units_done = PhaseUnits \/ p \in CompletedPhases(checkpoint)

\* C11: within a run the phase changes only by one forward step of the chain
\* NotStarted, Extracting, Analyzing, Selecting, Saving, Completed, taken after
\* the phase in hand completed, or from a non-terminal phase to Aborted; nothing
\* leaves Completed or Aborted, and the run is never in the same phase twice.
C11_PhasesAdvanceInOrder ==
    /\ [](/\ trail[Len(trail)] = phase
          /\ \A i, j \in 1..Len(trail) : i # j => trail[i] # trail[j])
    /\ [][(run_no' = run_no /\ phase' # phase) =>
            \/ <<phase, phase'>> \in PhaseChain /\ Completion(phase)
            \/ phase \notin {"Completed", "Aborted"} /\ phase' = "Aborted"]_vars

\* C11 witness: a resumed run, whose checkpoint recorded completed phases, went
\* through every phase in order and is Completed
C11_Witness ==
    /\ run_no = 2
    /\ resumed_from # None
    /\ resumed_from[1].completed # {}
    /\ phase = "Completed"
    /\ trail = Phases

\* the phase the run was in before its present one
PhaseBefore == IF Len(trail) > 1 THEN trail[Len(trail) - 1] ELSE "NotStarted"

\* the phases of the chain that come after Extracting
PastExtracting == {"Analyzing", "Selecting", "Saving", "Completed"}

\* C12: the checkpoint records only phases that finished successfully; a run
\* aborted by a failed extraction was in Extracting and leaves a checkpoint with
\* no completed phase; a resumed run that found no completed phase starts its
\* extraction at zero and gets past Extracting only by carrying it out; and a
\* resumed run carries out no phase that the checkpoint it found records.
C12_CheckpointRecordsFinishedPhases ==
    /\ CompletedPhases(checkpoint) \subseteq finished
    /\ (phase = "Aborted" /\ outcome = Some("ExtractionFailed")) =>
          /\ PhaseBefore = "Extracting"
          /\ CompletedPhases(checkpoint) = {}
    /\ (resumed_from # None /\ "Extracting" \notin resumed_from[1].completed) =>
          /\ (phase = "Extracting" /\ "Extracting" \notin executed) => units_done = 0
          /\ phase \in PastExtracting => "Extracting" \in executed
    /\ resumed_from # None => executed \cap resumed_from[1].completed = {}

\* C12 witness: the run before ended with a failed extraction, and the resumed
\* run, having found no completed phase, has carried extraction out again
C12_Witness ==
    /\ resumed_from = Some([completed |-> {}, after |-> Some("ExtractionFailed")])
    /\ "Extracting" \in executed
    /\ phase = "Analyzing"
    /\ CompletedPhases(checkpoint) = {"Extracting"}

-----------------------------------------------------------------------------
(* Properties of colour parsing and of the filter choice *)

\* the stream dictionary the last detection parsed
StreamParsed == ffprobe # None /\ ~detect_raised /\ ffprobe[1].stream # None
ProbedStream == ffprobe[1].stream[1]

\* the fixed tables: ffprobe's spelling, in lower case, and the member it names
PrimariesTable == {<<"bt709", "BT709">>, <<"bt2020", "BT2020">>, <<"smpte432", "DISPLAY_P3">>}
TransferTable ==
    {<<"bt709", "BT709">>, <<"iec61966-2-1", "SRGB">>, <<"smpte2084", "PQ">>,
     <<"arib-std-b67", "HLG">>}
MatrixTable == {<<"bt709", "BT709">>, <<"bt2020nc", "BT2020_NCL">>, <<"bt2020c", "BT2020_CL">>}

\* the member a table gives a text, letter case set aside; UNKNOWN for a missing
\* key, an empty text and a text the table does not list
TableMember(table, text) ==
    LET hits == {pair \in table : text # None /\ Lower(text[1]) = pair[1]}
    IN  IF hits = {} THEN "UNKNOWN" ELSE (CHOOSE pair \in hits : TRUE)[2]

\* C13: the info parsed from a stream dictionary has, for each of
\* color_primaries, color_transfer and color_space, the member its table gives
\* the text whatever its letter case, UNKNOWN (a member, never None) for a
\* missing, empty or unlisted text, and is_hdr exactly when the parsed transfer
\* function is PQ or HLG.
C13_ParsedFieldsFollowTables ==
    StreamParsed =>
        /\ color_info.color_primaries = TableMember(PrimariesTable, ProbedStream.color_primaries)
        /\ color_info.transfer_function = TableMember(TransferTable, ProbedStream.color_transfer)
        /\ color_info.color_matrix = TableMember(MatrixTable, ProbedStream.color_space)
        /\ color_info.color_primaries \in ColorPrimaries
        /\ color_info.transfer_function \in TransferFunction
        /\ color_info.color_matrix \in ColorMatrix
        /\ color_info.is_hdr <=> color_info.transfer_function \in {"PQ", "HLG"}

\* C13 witness: upper-case BT2020 and SMPTE2084 and no color_space key were
\* parsed to BT2020, PQ, UNKNOWN, HDR
C13_Witness ==
    /\ StreamParsed
    /\ ProbedStream.color_primaries = Some("BT2020")
    /\ ProbedStream.color_transfer = Some("SMPTE2084")
    /\ ProbedStream.color_space = None
    /\ color_info.color_primaries = "BT2020"
    /\ color_info.transfer_function = "PQ"
    /\ color_info.color_matrix = "UNKNOWN"
    /\ color_info.is_hdr

\* C14: for every VideoColorInfo, whatever the combination of its fields, the
\* filter built is None exactly when needs_conversion is false, and a filter
\* string whenever needs_conversion is true.
C14_FilterIffNeedsConversion ==
    built => (filter_result = None <=> ~needs_conversion(color_info))

\* C15: for an info that _parse_color_info produced, needs_conversion holds
\* exactly when the info is HDR or wide-gamut SDR, so build_colorspace_filter
\* never reaches its last 'return None' with an info that needs conversion, and
\* the filter built is a string exactly when needs_conversion holds.
C15_DetectedInfoAlwaysHandled ==
    StreamParsed =>
        /\ needs_conversion(color_info) <=>
               (color_info.is_hdr \/ is_wide_gamut_sdr(color_info))
        /\ FilterBranch(color_info) # "unhandled"
        /\ built => (filter_result # None <=> needs_conversion(color_info))

\* C15 witness: a stream with BT.709 primaries and the HLG transfer function
\* needs conversion on account of its transfer function alone, and got a filter
C15_Witness ==
    /\ StreamParsed
    /\ built
    /\ color_info.color_primaries = "BT709"
    /\ color_info.transfer_function = "HLG"
    /\ needs_conversion(color_info)
    /\ filter_result # None

\* C16: the filter of an info that is not HDR and has DISPLAY_P3 or BT2020
\* primaries is colorspace=all=bt709:iall=<p>:fast=0 with <p> smpte432 for
\* DISPLAY_P3 and bt2020 for BT2020, whatever the zscale cache holds; an HDR
\* info is never wide-gamut SDR and its filter is the tone-mapping chain or its
\* fallback, never the filter with iall=.
C16_WideGamutFilterNamesInput ==
    built =>
        /\ (~color_info.is_hdr /\ color_info.color_primaries = "DISPLAY_P3") =>
              filter_result = Some("colorspace=all=bt709:iall=smpte432:fast=0")
        /\ (~color_info.is_hdr /\ color_info.color_primaries = "BT2020") =>
              filter_result = Some("colorspace=all=bt709:iall=bt2020:fast=0")
        /\ color_info.is_hdr =>
              /\ ~is_wide_gamut_sdr(color_info)
              /\ filter_result \in
                    {Some("zscale=t=linear:npl=100,format=gbrpf32le,zscale=p=bt709,tonemap=hable:desat=0,zscale=t=bt709:m=bt709:r=tv,format=yuv420p"),
                     Some("colorspace=all=bt709:fast=0")}
              /\ ~Contains(FilterText, "iall=")

\* C16 witness: a Display P3 SDR info got the smpte432 filter in a process whose
\* cache says zscale is missing
C16_Witness ==
    /\ built
    /\ ~color_info.is_hdr
    /\ color_info.color_primaries = "DISPLAY_P3"
    /\ _zscale_available = Some(FALSE)
    /\ filter_result = Some("colorspace=all=bt709:iall=smpte432:fast=0")

-----------------------------------------------------------------------------
(* Properties of the GPS block written *)

\* -x
Negated(x) == Float(~x.neg, x.mag)

\* a degrees/minutes/seconds triple of rationals with non-negative degrees,
\* minutes in 0..59 and seconds * 100 in 0..5999
IsDms(t) ==
    /\ t[1][1] >= 0 /\ t[1][2] = 1
    /\ t[2][1] \in 0..59 /\ t[2][2] = 1
    /\ t[3][1] \in 0..5999 /\ t[3][2] = 100

\* C17: after a call that returned True the file's GPS block has GPSLatitudeRef
\* N exactly for latitude >= 0 and S otherwise, GPSLongitudeRef E exactly for
\* longitude >= 0 and W otherwise, GPSAltitudeRef 0 exactly for altitude >= 0 and
\* 1 otherwise; latitude, longitude and altitude are stored as non-negative
\* magnitudes, the coordinates as degrees, minutes in 0..59 and seconds * 100 in
\* 0..5999, and x and -x give the same triple; GPSHPositioningError is there
\* exactly when accuracy is not None; and the sections of the file's EXIF other
\* than GPS are what they were before the call.
C17_GpsBlockSignsAndMagnitudes ==
    (embed_call # None /\ embed_call[1].result) =>
        LET c == embed_call[1]
            gps == c.gps[1]
            block == jpeg.exif.gps[1]
        IN  /\ jpeg.exif.gps # None
            /\ block.GPSLatitudeRef = (IF GeZero(gps.latitude) THEN "N" ELSE "S")
            /\ block.GPSLongitudeRef = (IF GeZero(gps.longitude) THEN "E" ELSE "W")
            /\ block.GPSAltitudeRef = (IF GeZero(gps.altitude) THEN 0 ELSE 1)
            /\ IsDms(block.GPSLatitude)
            /\ IsDms(block.GPSLongitude)
            /\ block.GPSAltitude[1] >= 0 /\ block.GPSAltitude[2] = 100
            /\ \E below \in BOOLEAN :
                  /\ block.GPSLatitude = decimal_to_dms(gps.latitude, below)
                  /\ block.GPSLatitude = decimal_to_dms(Negated(gps.latitude), below)
            /\ \E below \in BOOLEAN :
                  /\ block.GPSLongitude = decimal_to_dms(gps.longitude, below)
                  /\ block.GPSLongitude = decimal_to_dms(Negated(gps.longitude), below)
            /\ block.GPSHPositioningError # None <=> gps.accuracy # None
            /\ jpeg.exif.zeroth = c.before.exif.zeroth
            /\ jpeg.exif.exif = c.before.exif.exif
            /\ jpeg.exif.first = c.before.exif.first
            /\ jpeg.exif.thumbnail = c.before.exif.thumbnail

\* C17 witness: -33.86+151.20-5.5 with accuracy 65.0 was embedded into a file
\* that carried Make, DateTimeOriginal and a thumbnail: 33 deg 51 min 35.99 s S,
\* 151 deg 11 min 59.99 s E, 5.50 m below sea level, error 65.00 m, the other
\* sections as before
C17_Witness ==
    /\ embed_call # None
    /\ embed_call[1].result
    /\ embed_call[1].piexif.load = "ok"
    /\ embed_call[1].before.exif.zeroth = "Make=Apple"
    /\ embed_call[1].gps[1].latitude = Float(TRUE, 3386 * (Scale \div 100))
    /\ jpeg.exif.zeroth = "Make=Apple"
    /\ jpeg.exif.gps =
          Some([GPSLatitudeRef |-> "S",
                GPSLatitude |-> <<<<33, 1>>, <<51, 1>>, <<3599, 100>>>>,
                GPSLongitudeRef |-> "E",
                GPSLongitude |-> <<<<151, 1>>, <<11, 1>>, <<5999, 100>>>>,
                GPSAltitudeRef |-> 1,
                GPSAltitude |-> <<550, 100>>,
                GPSHPositioningError |-> Some(<<6500, 100>>)])

-----------------------------------------------------------------------------
(* Properties of parse_iso6709 *)

AllDigits(t) == \A i \in 1..Len(t) : IsDigit(CharAt(t, i))

\* t is a sign, digits, a point, digits
IsSignedFraction(t) ==
    /\ IsSign(CharAt(t, 1))
    /\ \E d \in 3..(Len(t) - 1) :
          /\ CharAt(t, d) = "."
          /\ AllDigits(SubSeq(t, 2, d - 1))
          /\ AllDigits(SubSeq(t, d + 1, Len(t)))

\* t is a sign and digits, with or without a point and further digits
IsSignedNumber(t) ==
    /\ IsSign(CharAt(t, 1))
    /\ \/ Len(t) >= 2 /\ AllDigits(SubSeq(t, 2, Len(t)))
       \/ \E d \in 3..Len(t) :
             /\ CharAt(t, d) = "."
             /\ AllDigits(SubSeq(t, 2, d - 1))
             /\ AllDigits(SubSeq(t, d + 1, Len(t)))

\* s without the one "/" it may end in
WithoutSlash(s) ==
    IF Len(s) > 0 /\ CharAt(s, Len(s)) = "/" THEN SubSeq(s, 1, Len(s) - 1) ELSE s

\* the numbers written in t one after the other: each begins at a sign
SignPositions(t) == {i \in 1..Len(t) : IsSign(CharAt(t, i))}
NthSign(t, n) ==
    CHOOSE p \in SignPositions(t) : Cardinality({q \in SignPositions(t) : q < p}) = n - 1
WrittenNumber(t, n) ==
    SubSeq(t, NthSign(t, n),
           IF n < Cardinality(SignPositions(t)) THEN NthSign(t, n + 1) - 1 ELSE Len(t))

\* s is two or three signed numbers one after the other, the first two with a
\* fraction, and at most one "/" after them
IsWrittenLocation(s) ==
    LET t == WithoutSlash(s)
    IN  /\ Cardinality(SignPositions(t)) \in {2, 3}
        /\ IsSignedFraction(SubSeq(t, 1, NthSign(t, 2) - 1))
        /\ IsSignedFraction(WrittenNumber(t, 2))
        /\ Cardinality(SignPositions(t)) = 3 => IsSignedNumber(WrittenNumber(t, 3))

\* what a call of parse_iso6709 returned, r, against the text `written`: None
\* unless the text is a written location; else a GPSData with the first number
\* and its sign as latitude, the second as longitude, the third, or 0.0 when
\* there is none, as altitude, and no accuracy
LocationContract(written, r) ==
    /\ r # None <=> IsWrittenLocation(written)
    /\ (r # None /\ IsWrittenLocation(written)) =>
          LET t == WithoutSlash(written)
          IN  /\ r[1].latitude = ParseFloat(WrittenNumber(t, 1))[1]
              /\ r[1].latitude.neg <=> CharAt(WrittenNumber(t, 1), 1) = "-"
              /\ r[1].longitude = ParseFloat(WrittenNumber(t, 2))[1]
              /\ r[1].longitude.neg <=> CharAt(WrittenNumber(t, 2), 1) = "-"
              /\ r[1].altitude = (IF Cardinality(SignPositions(t)) = 3
                                  THEN ParseFloat(WrittenNumber(t, 3))[1]
                                  ELSE Float(FALSE, 0))
              /\ r[1].accuracy = None

\* C18 as claimed: parse_iso6709 returns None for the empty string and for every
\* string that is not two, or three, signed decimal numbers one after the other
\* with at most a "/" after them; for a string that is, it returns a GPSData
\* whose latitude and longitude have the signs written, whose altitude is the
\* third number or 0.0, and whose accuracy is None
C18_NoneUnlessWrittenLocation ==
    parse_result # None =>
        /\ parse_input = "" => parse_result[1] = None
        /\ LocationContract(parse_input, parse_result[1])

\* C18 amended: as claimed, for the string with the white space before and after
\* it taken off: a location written between spaces or before a newline is
\* parsed too
C18_NoneUnlessWrittenLocationStripped ==
    parse_result # None =>
        /\ parse_input = "" => parse_result[1] = None
        /\ LocationContract(Strip(parse_input), parse_result[1])

\* C18 witness: a west longitude and a whole-number altitude, written after a
\* space and before a newline, were parsed
C18_Witness ==
    /\ parse_input = " +50.80-012.90+311/\n"
    /\ parse_result =
          Some(Some([latitude |-> Float(FALSE, 5080 * (Scale \div 100)),
                     longitude |-> Float(TRUE, 1290 * (Scale \div 100)),
                     altitude |-> Float(FALSE, 31100 * (Scale \div 100)),
                     accuracy |-> None]))

=============================================================================
